---------------------------- MODULE Spec2Model ----------------------------
(***************************************************************************)
(* RSim: a bounded 2D grid of foraging, reproducing, aging entities and    *)
(* static food.  The model follows src/src/{map,element,food,entity,       *)
(* simulation,save,cmd}.py.  RSim.step() is modelled statement by statement*)
(* with a program counter (pc) and the index of Python's list iterator     *)
(* (it); Save.save() and Save.load() are single actions working on the     *)
(* bytes of the save file.                                                 *)
(***************************************************************************)
EXTENDS Integers, Sequences, FiniteSets, TLC

VARIABLES
    size,       \* Map.size: <<width, height>>
    maxFoods,   \* Food.maxFoods
    foods,      \* Food.list: sequence of [pts, x, y]
    entities,   \* Entity.list: sequence of [id, x, y, energy, time, age, obj]
    nEntities,  \* Entity.nEntities, the id counter
    nObj,       \* number of Entity objects allocated so far (object identity)
    simTime,    \* Save.time
    file,       \* the save file: [exists, bytes]
    backup,     \* the backup of the save file: [exists, bytes]
    pc,         \* position of the main thread
    it,         \* index of the list iterator of the for loop of RSim.step
    err,        \* the exception raised by the last operation, "none" if none
    before,     \* history: [ent, foods, n] when the current entity's tick began
    pre,        \* history: [ents, foods] when the current engine tick began
    ticked,     \* history: obj of the entities ticked in the current engine tick
    skipped,    \* history: records of the entities that followed a removed one
    saved,      \* history: [foods, ents, ok] at the last Save.save()
    op,         \* history: the last operation completed
    call,       \* history: [name, args, res] of the last call made from outside
    running,    \* RSim._running
    cpc,        \* position of the console input thread ("off": not started)
                \* "check", "input", "dispatch", "done"
    steps,      \* number of engine ticks the model may still begin
    cmds        \* number of console commands the model may still make

vars == <<size, maxFoods, foods, entities, nEntities, nObj, simTime, file,
          backup, pc, it, err, before, pre, ticked, skipped, saved, op, call,
          running, cpc, steps, cmds>>

thr == <<running, cpc>>

world == <<size, maxFoods, foods, entities, nEntities, nObj, simTime, file,
           backup>>
disk  == <<file, backup>>
hist  == <<before, pre, ticked, skipped, saved, op, call>>

---------------------------------------------------------------------------
(* Bounds of the model *)
MaxSteps == 3
MaxConsoleSteps == 1
MaxCmds == 1
MaxCodecSteps == 1
MaxCodecOps == 2
MaxElapsed == 1
MaxApiSteps == 1
MaxApiCalls == 2
MaxMapSteps == 1
MaxMapCalls == 2
MaxGenSteps == 2
MaxGenCalls == 1
MaxFileSteps == 1
MaxFileOps == 3
MaxThreadSteps == 1
MaxLines == 2
MaxIdSteps == 1
MaxIdCalls == 2
MaxStarveSteps == 305

\* int(time()) when Save() is constructed: self.starting
StartClock == 1000

(* Program constants *)
PTS_MAX == 65536
PTS_DEFAULT == 100
ENERGY_MAX == 9999
ENERGY_DEF == 200
TIME_MAX == 4000
RANGE_DEF == 10
MAX_ID == 65536
TIME_IN_AGE == 40
MIN_REPROD == 500
REPROD == 200
AGE_REPROD == 18..59
NBYTES_TIME == 8
NBYTES_COORD == 2
NBYTES_PTS == 2
NBYTES_ID == 2
NBYTES_ENERGY == 2
NBYTES_ETIME == 2

---------------------------------------------------------------------------
(* Helpers *)
Min2(a, b) == IF a < b THEN a ELSE b
Max2(a, b) == IF a > b THEN a ELSE b
RemoveAt(s, k) == [j \in 1..(Len(s) - 1) |-> IF j < k THEN s[j] ELSE s[j + 1]]
Objs(s) == {s[k].obj : k \in 1..Len(s)}

---------------------------------------------------------------------------
(* element.py: coordinates *)

\* Element.x setter: value in range(Map.size[0]), sz being Map.size
XValidOffByOne(sz, v) == v \in 0..sz[1]
XValid(sz, v) == v \in 0..(sz[1] - 1)

\* Element.y setter: value in range(Map.size[1])
YValidOffByOne(sz, v) == v \in 0..sz[2]
YValid(sz, v) == v \in 0..(sz[2] - 1)

\* (dx^2 + dy^2), the square of Element.distance
Dist2(a, b) == (a.x - b.x) * (a.x - b.x) + (a.y - b.y) * (a.y - b.y)

---------------------------------------------------------------------------
(* food.py *)

\* Food.pts setter: out of ]0, PTS_MAX] stores the default
PtsSet(v) == IF ~(0 < v /\ v <= PTS_MAX) THEN PTS_DEFAULT ELSE v

\* Food.__init__ then Food.new: the new list, or the exception of a setter
FoodNew(sz, fs, x, y, pts) ==
    IF ~XValid(sz, x) \/ ~YValid(sz, y)
    THEN [err |-> "ValueError", foods |-> fs]
    ELSE [err |-> "none",
          foods |-> Append(fs, [pts |-> PtsSet(pts), x |-> x, y |-> y])]

\* Map.rmdCoord(datas): the coordinates it can return ({} stands for None)
RmdCoordSearching(datas) ==
    {c \in (0..(size[1] - 1)) \X (0..(size[2] - 1)) :
        \A k \in 1..Len(datas) : ~(datas[k].x = c[1] /\ datas[k].y = c[2])}
RmdCoord(datas) ==
    IF size[1] * size[2] > Len(datas)
    THEN {c \in (0..(size[1] - 1)) \X (0..(size[2] - 1)) :
             \A k \in 1..Len(datas) : ~(datas[k].x = c[1] /\ datas[k].y = c[2])}
    ELSE {}

\* Food.generate(): the lists it can leave
FoodGenerateAnyCell(fs) ==
    IF Len(fs) < maxFoods
    THEN {FoodNew(size, fs, c[1], c[2], PTS_DEFAULT).foods :
              c \in (0..(size[1] - 1)) \X (0..(size[2] - 1))}
    ELSE {fs}
FoodGenerate(fs) ==
    IF Len(fs) < maxFoods /\ RmdCoord(fs) # {}
    THEN {FoodNew(size, fs, c[1], c[2], PTS_DEFAULT).foods : c \in RmdCoord(fs)}
    ELSE {fs}

---------------------------------------------------------------------------
(* entity.py *)

\* Entity.energy setter: clamps to [0, ENERGY_MAX]
EnergySetNoFloor(e, v) ==
    [e EXCEPT !.energy = IF v > ENERGY_MAX THEN ENERGY_MAX ELSE v]
EnergySet(e, v) ==
    [e EXCEPT !.energy = IF v > ENERGY_MAX THEN ENERGY_MAX
                         ELSE IF v < 0 THEN 0 ELSE v]

\* Entity.time setter: out of range(TIME_MAX) resets time, energy and age
TimeSetInclusive(e, v) ==
    IF v \notin 0..TIME_MAX
    THEN [e EXCEPT !.time = -1, !.energy = 0, !.age = 0]
    ELSE [e EXCEPT !.time = v, !.age = v \div TIME_IN_AGE]
TimeSetKeepsEnergy(e, v) ==
    IF v \notin 0..(TIME_MAX - 1)
    THEN [e EXCEPT !.time = -1, !.age = 0]
    ELSE [e EXCEPT !.time = v, !.age = v \div TIME_IN_AGE]
TimeSet(e, v) ==
    IF v \notin 0..(TIME_MAX - 1)
    THEN [e EXCEPT !.time = -1, !.energy = 0, !.age = 0]
    ELSE [e EXCEPT !.time = v, !.age = v \div TIME_IN_AGE]

\* the id counter of Entity.__init__
NextId(n) == IF n < MAX_ID THEN n + 1 ELSE 1

\* a constructor that puts the new entity at the head of the list
EntityNewAtHead(sz, es, n, o, x, y, energy, time) ==
    IF ~XValid(sz, x) \/ ~YValid(sz, y)
    THEN [err |-> "ValueError", ents |-> es, n |-> n, o |-> o]
    ELSE [err |-> "none",
          ents |-> <<TimeSet(EnergySet([id |-> NextId(n), x |-> x, y |-> y,
                                        energy |-> 0, time |-> 0, age |-> 0,
                                        obj |-> o + 1], energy), time)>> \o es,
          n |-> NextId(n), o |-> o + 1]

\* Entity.__init__ then Entity.new, on the lists and counters given
EntityNew(sz, es, n, o, x, y, energy, time) ==
    IF ~XValid(sz, x) \/ ~YValid(sz, y)
    THEN [err |-> "ValueError", ents |-> es, n |-> n, o |-> o]
    ELSE [err |-> "none",
          ents |-> Append(es,
              TimeSet(EnergySet([id |-> NextId(n), x |-> x, y |-> y, energy |-> 0,
                                 time |-> 0, age |-> 0, obj |-> o + 1], energy),
                      time)),
          n |-> NextId(n), o |-> o + 1]

\* a survival test that lets an agent of energy 0 live
SurviveAtZero(e) == ~(e.energy < 0 \/ e.age > TIME_MAX)

\* a survival test that never fails
SurviveAlways(e) == e.energy <= 0 \/ e.energy > 0

\* Entity.survive
Survive(e) == ~(e.energy <= 0 \/ e.age > TIME_MAX)

\* next(food for food in Food.list if food.x == self.x and food.y == self.y):
\* the index of the first food on the cell, 0 for None
RECURSIVE LastAtFrom(_, _, _, _)
LastAtFrom(fs, x, y, k) ==
    IF k < 1 THEN 0
    ELSE IF fs[k].x = x /\ fs[k].y = y THEN k
    ELSE LastAtFrom(fs, x, y, k - 1)
RECURSIVE FirstAtFrom(_, _, _, _)
FirstAtFrom(fs, x, y, k) ==
    IF k > Len(fs) THEN 0
    ELSE IF fs[k].x = x /\ fs[k].y = y THEN k
    ELSE FirstAtFrom(fs, x, y, k + 1)
FoodAtLast(fs, x, y) == LastAtFrom(fs, x, y, Len(fs))
FoodAt(fs, x, y) == FirstAtFrom(fs, x, y, 1)

\* Entity.eat: the entity and the food list it leaves
Eat(e, fs) ==
    IF e.energy < ENERGY_MAX /\ FoodAt(fs, e.x, e.y) # 0
    THEN LET k == FoodAt(fs, e.x, e.y)
         IN  [ent |-> EnergySet(e, Min2(ENERGY_MAX, e.energy + fs[k].pts)),
              foods |-> RemoveAt(fs, k)]
    ELSE [ent |-> e, foods |-> fs]

\* the condition of Entity.reproduction
CanReproduceInclusive(e) == e.age \in 18..60 /\ e.energy >= MIN_REPROD
CanReproduce(e) == e.age \in AGE_REPROD /\ e.energy >= MIN_REPROD

\* the energy Entity.reproduction gives the child
ChildEnergyOfParent(e) == e.energy
ChildEnergy(e) == ENERGY_DEF

\* Entity.possibleMoves
PossibleMovesNoStay(e) ==
    {m \in {-1, 0, 1} \X {-1, 0, 1} :
        /\ m # <<0, 0>>
        /\ 0 <= e.x + m[1] /\ e.x + m[1] < size[1]
        /\ 0 <= e.y + m[2] /\ e.y + m[2] < size[2]}
PossibleMoves(e) ==
    {m \in {-1, 0, 1} \X {-1, 0, 1} :
        /\ 0 <= e.x + m[1] /\ e.x + m[1] < size[1]
        /\ 0 <= e.y + m[2] /\ e.y + m[2] < size[2]}

\* the test of the loop of Entity.moveTowardsFood: dist <= self.range and
\* dist < min_distance (best = 0 stands for min_distance = inf); distances
\* are compared by their squares, sqrt being strictly increasing
CloserOrEqual(d2, best, bestD2) ==
    d2 <= RANGE_DEF * RANGE_DEF /\ (best = 0 \/ d2 <= bestD2)
Closer(d2, best, bestD2) ==
    d2 <= RANGE_DEF * RANGE_DEF /\ (best = 0 \/ d2 < bestD2)

\* the loop of Entity.moveTowardsFood: the index of closest_food, 0 for None
RECURSIVE ClosestFrom(_, _, _, _, _)
ClosestFrom(e, fs, k, best, bestD2) ==
    IF k > Len(fs) THEN best
    ELSE IF Closer(Dist2(e, fs[k]), best, bestD2)
         THEN ClosestFrom(e, fs, k + 1, k, Dist2(e, fs[k]))
         ELSE ClosestFrom(e, fs, k + 1, best, bestD2)
ClosestFood(e, fs) == ClosestFrom(e, fs, 1, 0, 0)

\* int(d / abs(d)) for d # 0, else d
Unit(d) == IF d > 0 THEN 1 ELSE IF d < 0 THEN -1 ELSE 0

\* cls.list.remove(elem): removes the first element that is elem
RECURSIVE IndexOfObj(_, _, _)
IndexOfObj(es, o, k) ==
    IF k > Len(es) THEN 0
    ELSE IF es[k].obj = o THEN k ELSE IndexOfObj(es, o, k + 1)
Delete(es, o) == RemoveAt(es, IndexOfObj(es, o, 1))

\* the index the list iterator of RSim.step holds after Entity.delete(entity):
\* Python leaves it as it is
IterOverCopy(i) == i - 1
IterAfterDelete(i) == i

---------------------------------------------------------------------------
(* The worlds the program starts from: RSim.init(size = <<w, h>>), then    *)
(* Food.new((x, y), pts) for each food <<x, y, pts>> and                   *)
(* Entity.new((x, y), energy, time) for each entity <<x, y, energy, time>>.*)

Small == <<3, 2>>
Line == <<12, 1>>
Wide == <<11, 2>>

Worlds ==
    { [size |-> Line, foods |-> <<(<<10, 0, 100>>)>>,
       ents |-> <<(<<0, 0, 1, 0>>), (<<1, 0, 1, 0>>), (<<2, 0, 5, 10>>)>>],
      [size |-> Line, foods |-> <<(<<10, 0, 100>>)>>,
       ents |-> <<(<<1, 0, 501, 719>>), (<<0, 0, 1, 5>>)>>],
      [size |-> Line, foods |-> <<(<<1, 0, 100>>), (<<10, 0, 100>>)>>,
       ents |-> <<(<<1, 0, 50, 3999>>), (<<0, 0, 300, 4000>>)>>],
      [size |-> Line, foods |-> <<(<<1, 0, 100>>), (<<1, 0, 7>>), (<<10, 0, 100>>)>>,
       ents |-> <<(<<1, 0, 50, 100>>)>>],
      [size |-> Line,
       foods |-> <<(<<1, 0, 100>>), (<<2, 0, 65535>>), (<<10, 0, 100>>)>>,
       ents |-> <<(<<1, 0, 10050, 100>>), (<<2, 0, 3, 7>>)>>],
      [size |-> Line, foods |-> <<(<<10, 0, 100>>), (<<1, 0, 100>>)>>,
       ents |-> <<(<<1, 0, 450, 720>>)>>],
      [size |-> Line, foods |-> <<(<<1, 0, 100>>), (<<10, 0, 100>>)>>,
       ents |-> <<(<<1, 0, 450, 2399>>), (<<0, 0, 500, 719>>)>>],
      [size |-> Line, foods |-> <<(<<10, 0, 100>>)>>,
       ents |-> <<(<<2, 0, 501, 718>>), (<<0, 0, 9000, 2398>>)>>],
      [size |-> Line, foods |-> <<(<<3, 0, 100>>), (<<7, 0, 100>>)>>,
       ents |-> <<(<<5, 0, 50, 0>>)>>],
      [size |-> Line, foods |-> <<(<<11, 0, 100>>)>>,
       ents |-> <<(<<0, 0, 10, 0>>), (<<11, 0, 2, 0>>)>>],
      [size |-> Line, foods |-> <<>>,
       ents |-> <<(<<5, 0, 1, 0>>)>>],
      [size |-> Small, foods |-> <<>>,
       ents |-> <<(<<1, 0, 50, 0>>)>>],
      [size |-> Small, foods |-> <<(<<2, 1, 100>>), (<<2, 0, 100>>)>>,
       ents |-> <<(<<1, 0, 50, 0>>), (<<1, 1, 50, 0>>)>>],
      [size |-> Small, foods |-> <<(<<0, 0, 100>>), (<<0, 0, 100>>)>>,
       ents |-> <<(<<2, 1, 50, 0>>), (<<0, 1, 50, 0>>)>>],
      [size |-> Wide, foods |-> <<(<<10, 1, 100>>), (<<10, 1, 100>>)>>,
       ents |-> <<(<<0, 0, 10, 0>>)>>] }

RECURSIVE PlaceFoods(_, _, _)
PlaceFoods(sz, in, k) ==
    IF k = 0 THEN <<>>
    ELSE FoodNew(sz, PlaceFoods(sz, in, k - 1), in[k][1], in[k][2], in[k][3]).foods

\* the Entity.new calls of a world, the id counter being n0 before them
RECURSIVE PlaceEntitiesFrom(_, _, _, _)
PlaceEntitiesFrom(sz, in, k, n0) ==
    IF k = 0 THEN [ents |-> <<>>, n |-> n0, o |-> 0]
    ELSE LET r == PlaceEntitiesFrom(sz, in, k - 1, n0)
         IN  EntityNew(sz, r.ents, r.n, r.o, in[k][1], in[k][2], in[k][3],
                       in[k][4])

PlaceEntities(sz, in, k) == PlaceEntitiesFrom(sz, in, k, 0)

NoEntity == [id |-> 0, x |-> 0, y |-> 0, energy |-> 0, time |-> 0, age |-> 0,
             obj |-> 0]

\* the history variables outside an entity's tick and outside an engine tick
NoTick == [ent |-> NoEntity, foods |-> <<>>, n |-> 0]
NoStep == [ents |-> <<>>, foods |-> <<>>]
NoCall == [name |-> "none", args |-> <<>>, res |-> <<>>]

\* the worlds in which the console commands are explored
ConsoleWorlds ==
    { [size |-> Line, foods |-> <<(<<10, 0, 100>>)>>,
       ents |-> <<(<<1, 0, 501, 719>>), (<<0, 0, 1, 5>>)>>],
      [size |-> Line, foods |-> <<>>,
       ents |-> <<(<<5, 0, 1, 0>>)>>],
      [size |-> Small, foods |-> <<>>,
       ents |-> <<(<<1, 0, 50, 0>>)>>],
      [size |-> Wide, foods |-> <<(<<10, 1, 100>>), (<<10, 1, 100>>)>>,
       ents |-> <<(<<0, 0, 10, 0>>)>>] }

\* RSim.init (Map.size, Food.maxFoods, Save()) followed by the placements,
\* and then by the construction and the removal of `used' other entities
InitWorldWith(w, n0, used, f, nSteps, nCmds) ==
        /\ size = w.size
        /\ maxFoods = (w.size[1] * w.size[2]) \div 9
        /\ foods = PlaceFoods(w.size, w.foods, Len(w.foods))
        /\ LET r == PlaceEntitiesFrom(w.size, w.ents, Len(w.ents), n0)
           IN  /\ entities = r.ents
               /\ nEntities = r.n + used
               /\ nObj = r.o + used
        /\ simTime = 0
        /\ file = f
        /\ backup = [exists |-> FALSE, bytes |-> <<>>]
        /\ op = "init"
        /\ call = NoCall
        /\ pc = "idle"
        /\ it = 0
        /\ err = "none"
        /\ before = NoTick
        /\ pre = NoStep
        /\ ticked = {}
        /\ skipped = {}
        /\ saved = [ok |-> FALSE, foods |-> <<>>, ents |-> <<>>]
        /\ running = FALSE
        /\ cpc = "off"
        /\ steps = nSteps
        /\ cmds = nCmds

\* the same when no entity has been constructed since the placements
InitWorldAt(w, n0, f, nSteps, nCmds) ==
    InitWorldWith(w, n0, 0, f, nSteps, nCmds)

NoFile == [exists |-> FALSE, bytes |-> <<>>]

InitWorld(w, nSteps, nCmds) == InitWorldAt(w, 0, NoFile, nSteps, nCmds)

Init == \E w \in Worlds : InitWorld(w, MaxSteps, 0)

InitConsole == \E w \in ConsoleWorlds : InitWorld(w, MaxConsoleSteps, MaxCmds)

InitCodec == \E w \in Worlds : InitWorld(w, MaxCodecSteps, MaxCodecOps)

---------------------------------------------------------------------------
(* simulation.py: RSim.step *)

\* RSim.step is called by the main loop
StepBegin ==
    /\ pc = "idle"
    /\ steps > 0
    /\ pc' = "for"
    /\ it' = 0
    /\ steps' = steps - 1
    /\ pre' = [ents |-> entities, foods |-> foods]
    /\ ticked' = {}
    /\ skipped' = {}
    /\ err' = "none"
    /\ UNCHANGED thr
    /\ UNCHANGED <<world, before, saved, op, call, cmds>>

\* for entity in Entity.list: the iterator yields list[it] and advances, or
\* the loop ends
ForNext ==
    /\ pc = "for"
    /\ IF it < Len(entities)
       THEN /\ it' = it + 1
            /\ pc' = "dec"
            /\ before' = [ent |-> entities[it + 1], foods |-> foods,
                          n |-> Len(entities)]
            /\ ticked' = ticked \cup {entities[it + 1].obj}
       ELSE /\ pc' = "end"
            /\ UNCHANGED <<it, before, ticked>>
    /\ UNCHANGED thr
    /\ UNCHANGED <<world, err, pre, skipped, saved, op, call, steps, cmds>>

\* Entity.move: self.energy = max(0, self.energy - 1); self.time += 1
MoveDec ==
    /\ pc = "dec"
    /\ LET e == entities[it]
       IN  entities' = [entities EXCEPT
               ![it] = TimeSet(EnergySet(e, Max2(0, e.energy - 1)), e.time + 1)]
    /\ pc' = "eat"
    /\ UNCHANGED thr
    /\ UNCHANGED <<size, maxFoods, foods, nEntities, nObj, simTime, disk, it,
                   err, hist, steps, cmds>>

\* Entity.move: self.eat()
MoveEat ==
    /\ pc = "eat"
    /\ LET r == Eat(entities[it], foods)
       IN  /\ entities' = [entities EXCEPT ![it] = r.ent]
           /\ foods' = r.foods
    /\ pc' = "reprod"
    /\ UNCHANGED thr
    /\ UNCHANGED <<size, maxFoods, nEntities, nObj, simTime, disk, it, err,
                   hist, steps, cmds>>

\* Entity.move: self.reproduction()
MoveReproduction ==
    /\ pc = "reprod"
    /\ LET e == entities[it]
       IN  IF CanReproduce(e)
           THEN LET p == EnergySet(e, e.energy - REPROD)
                    r == EntityNew(size, [entities EXCEPT ![it] = p], nEntities,
                                   nObj, p.x, p.y, ChildEnergy(p), 0)
                IN  /\ entities' = r.ents
                    /\ nEntities' = r.n
                    /\ nObj' = r.o
                    /\ err' = r.err
                    /\ pc' = IF r.err = "none" THEN "mv" ELSE "crashed"
           ELSE /\ pc' = "mv"
                /\ UNCHANGED <<entities, nEntities, nObj, err>>
    /\ UNCHANGED thr
    /\ UNCHANGED <<size, maxFoods, foods, simTime, disk, it, hist, steps, cmds>>

\* self.x += dx; self.y += dy through the validating setters: the state the
\* two assignments leave
Shift(dx, dy) ==
    LET e == entities[it]
    IN  IF ~XValid(size, e.x + dx)
        THEN /\ pc' = "crashed" /\ err' = "ValueError" /\ UNCHANGED entities
        ELSE IF ~YValid(size, e.y + dy)
        THEN /\ pc' = "crashed" /\ err' = "ValueError"
             /\ entities' = [entities EXCEPT ![it].x = e.x + dx]
        ELSE /\ pc' = "survive" /\ err' = err
             /\ entities' = [entities EXCEPT ![it].x = e.x + dx,
                                             ![it].y = e.y + dy]

\* Entity.move: moveTowardsFood(), and rdmMove() when it returns None
MoveGo ==
    /\ pc = "mv"
    /\ LET e == entities[it]
           k == ClosestFood(e, foods)
       IN  IF k # 0
           THEN Shift(Unit(foods[k].x - e.x), Unit(foods[k].y - e.y))
           ELSE IF PossibleMoves(e) = {}
           THEN /\ pc' = "crashed" /\ err' = "IndexError" /\ UNCHANGED entities
           ELSE \E m \in PossibleMoves(e) : Shift(m[1], m[2])
    /\ UNCHANGED thr
    /\ UNCHANGED <<size, maxFoods, foods, nEntities, nObj, simTime, disk, it,
                   hist, steps, cmds>>

\* if not entity.survive(): Entity.delete(entity)
StepSurvive ==
    /\ pc = "survive"
    /\ LET e == entities[it]
       IN  IF ~Survive(e)
           THEN /\ entities' = Delete(entities, e.obj)
                /\ it' = IterAfterDelete(it)
                /\ skipped' = IF it + 1 <= Len(entities)
                              THEN skipped \cup {entities[it + 1]}
                              ELSE skipped
           ELSE UNCHANGED <<entities, it, skipped>>
    /\ pc' = "for"
    /\ before' = NoTick
    /\ UNCHANGED thr
    /\ UNCHANGED <<size, maxFoods, foods, nEntities, nObj, simTime, disk, err,
                   pre, ticked, saved, op, call, steps, cmds>>

\* a setter that stores one more than it is given
SaveTimeSetSkip(v) == IF v < 0 THEN -1 ELSE v + 1

\* Save.time setter (range(2 ** 64) lies beyond every value of the model)
SaveTimeSet(v) == IF v < 0 THEN -1 ELSE v

\* cls.save.time += 1; Food.generate()
StepEnd ==
    /\ pc = "end"
    /\ simTime' = SaveTimeSet(simTime + 1)
    /\ foods' \in FoodGenerate(foods)
    /\ pc' = "idle"
    /\ it' = 0
    /\ pre' = NoStep
    /\ ticked' = {}
    /\ skipped' = {}
    /\ op' = "step"
    /\ UNCHANGED thr
    /\ UNCHANGED <<size, maxFoods, entities, nEntities, nObj, disk, err, before,
                   saved, call, steps, cmds>>

---------------------------------------------------------------------------
(* cmd.py: the console commands that place elements *)

\* the coordinates typed on the console
SpawnCoords == {<<2, 1>>, <<3, 0>>, <<12, 0>>, <<0, 2>>, <<-1, 0>>}

\* "spawn entity x y": Entity.new((x, y), Entity.ENERGY_DEF)
SpawnEntityCall ==
    /\ cmds > 0
    /\ \E c \in SpawnCoords :
         LET r == EntityNew(size, entities, nEntities, nObj, c[1], c[2],
                            ENERGY_DEF, 0)
         IN  /\ entities' = r.ents
             /\ nEntities' = r.n
             /\ nObj' = r.o
             /\ err' = r.err
             /\ call' = [name |-> "spawn entity", args |-> c, res |-> <<>>]
    /\ cmds' = cmds - 1
    /\ op' = "spawn"
    /\ UNCHANGED <<size, maxFoods, foods, simTime, disk, pc, it, before, pre,
                   ticked, skipped, saved, steps>>

\* the line processed between two ticks
SpawnEntity == pc = "idle" /\ SpawnEntityCall /\ UNCHANGED thr

\* "spawn entity": Entity.generate(), Map.rmdCoord() with no occupants; with
\* no coordinate (None) the constructor raises a TypeError
GenerateEntityCall ==
    /\ cmds > 0
    /\ IF RmdCoord(<<>>) = {}
       THEN /\ err' = "TypeError"
            /\ UNCHANGED <<entities, nEntities, nObj>>
       ELSE \E c \in RmdCoord(<<>>) :
              LET r == EntityNew(size, entities, nEntities, nObj, c[1], c[2],
                                 ENERGY_DEF, 0)
              IN  /\ entities' = r.ents
                  /\ nEntities' = r.n
                  /\ nObj' = r.o
                  /\ err' = r.err
    /\ cmds' = cmds - 1
    /\ op' = "generate"
    /\ call' = [name |-> "Entity.generate", args |-> <<>>, res |-> <<>>]
    /\ UNCHANGED <<size, maxFoods, foods, simTime, disk, pc, it, before, pre,
                   ticked, skipped, saved, steps>>

\* the line processed between two ticks
GenerateEntity == pc = "idle" /\ GenerateEntityCall /\ UNCHANGED thr

\* "spawn food": Food.generate()
GenerateFoodCall ==
    /\ cmds > 0
    /\ foods' \in FoodGenerate(foods)
    /\ err' = "none"
    /\ cmds' = cmds - 1
    /\ op' = "generate"
    /\ call' = [name |-> "Food.generate", args |-> <<>>, res |-> <<>>]
    /\ UNCHANGED <<size, maxFoods, entities, nEntities, nObj, simTime, disk, pc,
                   it, before, pre, ticked, skipped, saved, steps>>

\* the call made between two ticks
GenerateFood == pc = "idle" /\ GenerateFoodCall /\ UNCHANGED thr

\* Food.new called with the positional arguments a after cls: the method
\* takes coord and pts, and pts has no default value
FoodNewArgs(sz, fs, a) ==
    IF Len(a) # 2 THEN [err |-> "TypeError", foods |-> fs]
    ELSE FoodNew(sz, fs, a[1][1], a[1][2], a[2])

\* "spawn food x y": Food.new((x, y))
SpawnFoodCall ==
    /\ cmds > 0
    /\ \E c \in SpawnCoords :
         LET r == FoodNewArgs(size, foods, <<c>>)
         IN  /\ foods' = r.foods
             /\ err' = r.err
             /\ call' = [name |-> "spawn food", args |-> c, res |-> <<>>]
    /\ cmds' = cmds - 1
    /\ op' = "spawn"
    /\ UNCHANGED <<size, maxFoods, entities, nEntities, nObj, simTime, disk,
                   pc, it, before, pre, ticked, skipped, saved, steps>>

\* the line processed between two ticks
SpawnFood == pc = "idle" /\ SpawnFoodCall /\ UNCHANGED thr

---------------------------------------------------------------------------
(* save.py: the binary record *)

\* byte k (0 the least significant) of value.to_bytes(size, byteorder='big');
\* the values of the model lie below 2 ** 31, so bytes 4 and above are 0
ByteOf(v, k) == IF k >= 4 THEN 0 ELSE (v \div (256 ^ k)) % 256

\* value.to_bytes(size, byteorder='big')
ToBytes(n, v) == [i \in 1..n |-> ByteOf(v, n - i)]

\* int.from_bytes(data, byteorder='big')
RECURSIVE FromBytes(_, _)
FromBytes(bs, k) == IF k = 0 THEN 0 ELSE FromBytes(bs, k - 1) * 256 + bs[k]

\* the test of Save._write_int: 0 <= value < 2 ** (size * 8)
Fits(n, v) == 0 <= v /\ (n >= 4 \/ v < 256 ^ n)

\* the fields Save.save writes, in order, each <<size, value>>
RECURSIVE FoodFields(_, _)
FoodFields(fs, k) ==
    IF k > Len(fs) THEN << <<NBYTES_PTS, 0>> >>
    ELSE << <<NBYTES_PTS, fs[k].pts>>, <<NBYTES_COORD, fs[k].x>>,
            <<NBYTES_COORD, fs[k].y>> >> \o FoodFields(fs, k + 1)

RECURSIVE EntityFields(_, _)
EntityFields(es, k) ==
    IF k > Len(es) THEN << <<NBYTES_ID, 0>> >>
    ELSE << <<NBYTES_ID, es[k].id>>, <<NBYTES_COORD, es[k].x>>,
            <<NBYTES_COORD, es[k].y>>, <<NBYTES_ENERGY, es[k].energy>>,
            <<NBYTES_ETIME, es[k].time>> >> \o EntityFields(es, k + 1)

SaveFieldsOf(t, sz, fs, es, stop) ==
    << <<NBYTES_TIME, stop>>, <<NBYTES_TIME, t + (stop - StartClock)>>,
       <<NBYTES_COORD, sz[1]>>, <<NBYTES_COORD, sz[2]>> >>
    \o FoodFields(fs, 1) \o EntityFields(es, 1)

SaveFields(stop) == SaveFieldsOf(simTime, size, foods, entities, stop)

\* the successive Save._write_int calls: the bytes written, and whether a
\* value that does not fit stopped them
RECURSIVE WriteFields(_, _, _)
WriteFields(fields, k, acc) ==
    IF k > Len(fields) THEN [err |-> "none", bytes |-> acc]
    ELSE IF ~Fits(fields[k][1], fields[k][2])
    THEN [err |-> "ValueError", bytes |-> acc]
    ELSE WriteFields(fields, k + 1, acc \o ToBytes(fields[k][1], fields[k][2]))

\* the copy of Save.save(): the backup after it, from the save file and the
\* backup before it; with no save file the copy raises and nothing is copied
BackupCopyNever(target, bak) == bak

BackupCopy(target, bak) == IF target.exists THEN target ELSE bak

\* Save.save(): the copy to the backup (its failure is swallowed), then the
\* file is opened for writing, which empties it, and written field by field
SaveCall ==
    /\ cmds > 0
    /\ \E elapsed \in 0..MaxElapsed :
         LET r == WriteFields(SaveFields(StartClock + elapsed), 1, <<>>)
         IN  /\ file' = [exists |-> TRUE, bytes |-> r.bytes]
             /\ err' = r.err
             /\ saved' = [ok |-> r.err = "none", foods |-> foods,
                          ents |-> entities]
    /\ backup' = BackupCopy(file, backup)
    /\ cmds' = cmds - 1
    /\ op' = "save"
    /\ call' = [name |-> "Save.save", args |-> <<>>, res |-> <<>>]
    /\ UNCHANGED <<size, maxFoods, foods, entities, nEntities, nObj, simTime,
                   pc, it, before, pre, ticked, skipped, steps>>

\* Save.save() called between two ticks
Save == pc = "idle" /\ SaveCall /\ UNCHANGED thr

\* a read that does not test the length of what it read
ReadIntLenient(bs, pos, n) ==
    [err |-> "none",
     v |-> IF pos + n - 1 > Len(bs) THEN 0
           ELSE FromBytes(SubSeq(bs, pos, pos + n - 1), n),
     pos |-> pos + n]

\* Save._read_int: the value and the next position, or the read error
ReadInt(bs, pos, n) ==
    IF pos + n - 1 > Len(bs)
    THEN [err |-> "ValueError", v |-> 0, pos |-> pos]
    ELSE [err |-> "none", v |-> FromBytes(SubSeq(bs, pos, pos + n - 1), n),
          pos |-> pos + n]

\* the loop of Save._read_food
RECURSIVE ReadFoods(_, _, _, _)
ReadFoods(sz, bs, pos, fs) ==
    LET p == ReadInt(bs, pos, NBYTES_PTS)
        x == ReadInt(bs, p.pos, NBYTES_COORD)
        y == ReadInt(bs, x.pos, NBYTES_COORD)
        r == FoodNew(sz, fs, x.v, y.v, p.v)
    IN  IF p.err # "none" THEN [err |-> p.err, foods |-> fs, pos |-> pos]
        ELSE IF p.v = 0 THEN [err |-> "none", foods |-> fs, pos |-> p.pos]
        ELSE IF x.err # "none" THEN [err |-> x.err, foods |-> fs, pos |-> pos]
        ELSE IF y.err # "none" THEN [err |-> y.err, foods |-> fs, pos |-> pos]
        ELSE IF r.err # "none" THEN [err |-> r.err, foods |-> fs, pos |-> pos]
        ELSE ReadFoods(sz, bs, y.pos, r.foods)

\* the loop of Save._read_entity; the id read is not given to Entity.new
RECURSIVE ReadEntities(_, _, _, _, _, _)
ReadEntities(sz, bs, pos, es, n, o) ==
    LET i == ReadInt(bs, pos, NBYTES_ID)
        x == ReadInt(bs, i.pos, NBYTES_COORD)
        y == ReadInt(bs, x.pos, NBYTES_COORD)
        g == ReadInt(bs, y.pos, NBYTES_ENERGY)
        t == ReadInt(bs, g.pos, NBYTES_ETIME)
        r == EntityNew(sz, es, n, o, x.v, y.v, g.v, t.v)
        stop(e) == [err |-> e, ents |-> es, n |-> n, o |-> o]
    IN  IF i.err # "none" THEN stop(i.err)
        ELSE IF i.v = 0 THEN stop("none")
        ELSE IF x.err # "none" THEN stop(x.err)
        ELSE IF y.err # "none" THEN stop(y.err)
        ELSE IF g.err # "none" THEN stop(g.err)
        ELSE IF t.err # "none" THEN stop(t.err)
        ELSE IF r.err # "none" THEN stop(r.err)
        ELSE ReadEntities(sz, bs, t.pos, r.ents, r.n, r.o)

\* Save.load() on the save file sf: what it leaves of the state, whether it
\* ends or raises
LoadedFrom(sf) ==
    LET bs == sf.bytes
        l  == ReadInt(bs, 1, NBYTES_TIME)
        t  == ReadInt(bs, l.pos, NBYTES_TIME)
        w  == ReadInt(bs, t.pos, NBYTES_COORD)
        h  == ReadInt(bs, w.pos, NBYTES_COORD)
        sz == <<w.v, h.v>>
        f  == ReadFoods(sz, bs, h.pos, <<>>)
        e  == ReadEntities(sz, bs, f.pos, <<>>, nEntities, nObj)
        now == [err |-> "none", size |-> size, simTime |-> simTime,
                foods |-> foods, ents |-> entities, n |-> nEntities, o |-> nObj]
    IN  IF ~sf.exists THEN [now EXCEPT !.err = "IOError"]
        ELSE IF l.err # "none" THEN [now EXCEPT !.err = l.err]
        ELSE IF t.err # "none" THEN [now EXCEPT !.err = t.err]
        ELSE IF w.err # "none" \/ h.err # "none"
        THEN [now EXCEPT !.err = "ValueError", !.simTime = SaveTimeSet(t.v)]
        ELSE IF f.err # "none"
        THEN [now EXCEPT !.err = f.err, !.simTime = SaveTimeSet(t.v),
                         !.size = sz, !.foods = f.foods]
        ELSE [err |-> e.err, size |-> sz, simTime |-> SaveTimeSet(t.v),
              foods |-> f.foods, ents |-> e.ents, n |-> e.n, o |-> e.o]

Loaded == LoadedFrom(file)

Load ==
    /\ pc = "idle"
    /\ cmds > 0
    /\ LET r == Loaded
       IN  /\ size' = r.size
           /\ simTime' = r.simTime
           /\ foods' = r.foods
           /\ entities' = r.ents
           /\ nEntities' = r.n
           /\ nObj' = r.o
           /\ err' = r.err
    /\ cmds' = cmds - 1
    /\ op' = "load"
    /\ call' = [name |-> "Save.load", args |-> <<>>, res |-> <<>>]
    /\ UNCHANGED thr
    /\ UNCHANGED <<maxFoods, disk, pc, it, before, pre, ticked, skipped, saved,
                   steps>>

---------------------------------------------------------------------------
(* The classes used directly: constructors, property assignments, Map     *)
(* and RSim class methods called on a running program.                    *)

\* the worlds in which the calls are explored
ApiWorlds ==
    { [size |-> Small, foods |-> <<(<<2, 1, 100>>)>>,
       ents |-> <<(<<1, 0, 50, 0>>)>>],
      [size |-> <<2, 1>>, foods |-> <<(<<0, 0, 100>>), (<<0, 0, 100>>)>>,
       ents |-> <<(<<1, 0, 300, 3999>>)>>] }

\* Entity.nEntities before the placements of the world: a fresh process, or
\* one that has constructed IdStart entities and deleted them
IdStart == 65534
IdStarts == {0, IdStart}

\* the save file of the save number: none, or the one an earlier run of the
\* program left, a 5 x 2 map with one food and one entity
OldFile ==
    [exists |-> TRUE,
     bytes |-> WriteFields(
         SaveFieldsOf(0, <<5, 2>>, PlaceFoods(<<5, 2>>, <<(<<4, 1, 100>>)>>, 1),
                      PlaceEntities(<<5, 2>>, <<(<<4, 1, 200, 0>>)>>, 1).ents,
                      StartClock), 1, <<>>).bytes]

\* worlds without food: the only foods are those of Food.generate
EmptyWorlds ==
    { [size |-> <<6, 3>>, foods |-> <<>>, ents |-> <<(<<0, 0, 3, 0>>)>>],
      [size |-> <<5, 2>>, foods |-> <<>>, ents |-> <<(<<4, 1, 50, 0>>)>>],
      [size |-> Small, foods |-> <<>>, ents |-> <<(<<1, 0, 50, 0>>)>>] }

InitGenerate == \E w \in EmptyWorlds : InitWorld(w, MaxGenSteps, MaxGenCalls)

InitApi ==
    \E w \in ApiWorlds, n0 \in IdStarts :
        InitWorldAt(w, n0, NoFile, MaxApiSteps, MaxApiCalls)

\* worlds for the save files: an agent one tick from the end of its elapsed
\* time and standing on a food, a food with the largest pts Food.new accepts
\* after an ordinary one, a world whose every field fits, and a world on a
\* map longer than the map of the old files
FileWorlds ==
    { [size |-> Small, foods |-> <<(<<1, 0, 100>>)>>,
       ents |-> <<(<<1, 0, 50, 3999>>)>>],
      [size |-> Small, foods |-> <<(<<0, 0, 100>>), (<<2, 1, 65536>>)>>,
       ents |-> <<(<<1, 0, 50, 0>>)>>],
      [size |-> Small, foods |-> <<(<<2, 1, 100>>)>>,
       ents |-> <<(<<1, 0, 50, 0>>)>>],
      [size |-> Line, foods |-> <<(<<10, 0, 100>>)>>,
       ents |-> <<(<<11, 0, 50, 0>>)>>] }

\* a save file an earlier run left: a 5 x 2 map, two foods and one entity
LongFile ==
    [exists |-> TRUE,
     bytes |-> WriteFields(
         SaveFieldsOf(0, <<5, 2>>,
                      PlaceFoods(<<5, 2>>, <<(<<4, 1, 100>>), (<<0, 0, 7>>)>>, 2),
                      PlaceEntities(<<5, 2>>, <<(<<4, 1, 200, 0>>)>>, 1).ents,
                      StartClock), 1, <<>>).bytes]

\* the file f cut after its first n bytes
Truncated(f, n) == [exists |-> TRUE, bytes |-> SubSeq(f.bytes, 1, n)]

\* the lengths at which LongFile is cut: in the header, in the first food
\* record, in the second (after its pts, after its x), in the entity record
CutPoints == {10, 23, 29, 31, 38}

OldFiles == {NoFile, LongFile} \cup {Truncated(LongFile, n) : n \in CutPoints}

InitFiles ==
    \E w \in FileWorlds, f \in OldFiles :
        InitWorldAt(w, 0, f, MaxFileSteps, MaxFileOps)

\* a run in which, since the placements of the world, IdStart entities have
\* been constructed and removed (born and dead), or none
InitIds ==
    \E w \in ApiWorlds, used \in IdStarts :
        InitWorldWith(w, 0, used, NoFile, MaxIdSteps, MaxIdCalls)

\* worlds without food on maps of fewer than 9 cells (Food.maxFoods = 0): an
\* agent that reproduces in the first tick, an agent that dies before the
\* agent that follows it, an agent one tick from the end of its elapsed time
StarveWorlds ==
    { [size |-> <<1, 1>>, foods |-> <<>>, ents |-> <<(<<0, 0, 501, 719>>)>>],
      [size |-> Small, foods |-> <<>>,
       ents |-> <<(<<0, 0, 2, 0>>), (<<1, 0, 4, 0>>)>>],
      [size |-> <<2, 1>>, foods |-> <<>>,
       ents |-> <<(<<0, 0, 3, 0>>), (<<1, 0, 9000, 3999>>), (<<1, 0, 2, 7>>)>>] }

InitStarve == \E w \in StarveWorlds : InitWorld(w, MaxStarveSteps, 0)

InitMap ==
    \E w \in ApiWorlds, f \in {NoFile, OldFile} :
        InitWorldAt(w, 0, f, MaxMapSteps, MaxMapCalls)

\* the arguments <<x, y, energy, time>> given to Entity.new
EntityArgs ==
    { <<0, 0, 200, 0>>, <<size[1] - 1, size[2] - 1, 10050, 4000>>,
      <<0, 0, -5, 3999>>, <<size[1], 0, 200, 0>>, <<0, size[2], 200, 0>>,
      <<-1, 0, 200, 0>> }

\* Entity.new((x, y), energy, time)
ApiEntityNew ==
    /\ pc = "idle"
    /\ cmds > 0
    /\ \E a \in EntityArgs :
         LET r == EntityNew(size, entities, nEntities, nObj, a[1], a[2], a[3],
                            a[4])
         IN  /\ entities' = r.ents
             /\ nEntities' = r.n
             /\ nObj' = r.o
             /\ err' = r.err
             /\ call' = [name |-> "Entity.new", args |-> a, res |-> <<>>]
    /\ cmds' = cmds - 1
    /\ op' = "call"
    /\ UNCHANGED thr
    /\ UNCHANGED <<size, maxFoods, foods, simTime, disk, pc, it, before, pre,
                   ticked, skipped, saved, steps>>

\* the arguments <<x, y, pts>> given to Food.new
FoodArgs ==
    { <<0, 0, 65535>>, <<size[1] - 1, size[2] - 1, 65536>>, <<0, 0, 65537>>,
      <<0, 0, 0>>, <<size[1], 0, 100>>, <<0, size[2], 100>>, <<0, -1, 1>> }

\* Food.new((x, y), pts)
ApiFoodNew ==
    /\ pc = "idle"
    /\ cmds > 0
    /\ \E a \in FoodArgs :
         LET r == FoodNew(size, foods, a[1], a[2], a[3])
         IN  /\ foods' = r.foods
             /\ err' = r.err
             /\ call' = [name |-> "Food.new", args |-> a, res |-> <<>>]
    /\ cmds' = cmds - 1
    /\ op' = "call"
    /\ UNCHANGED thr
    /\ UNCHANGED <<size, maxFoods, entities, nEntities, nObj, simTime, disk,
                   pc, it, before, pre, ticked, skipped, saved, steps>>

\* entity.energy = v for an entity of the list
SetEnergy ==
    /\ pc = "idle"
    /\ cmds > 0
    /\ \E k \in 1..Len(entities) :
         \E v \in {-5, 10050, entities[k].energy} :
           /\ entities' = [entities EXCEPT ![k] = EnergySet(entities[k], v)]
           /\ call' = [name |-> "Entity.energy", args |-> <<k, v>>,
                       res |-> <<>>]
    /\ err' = "none"
    /\ cmds' = cmds - 1
    /\ op' = "call"
    /\ UNCHANGED thr
    /\ UNCHANGED <<size, maxFoods, foods, nEntities, nObj, simTime, disk, pc,
                   it, before, pre, ticked, skipped, saved, steps>>

\* entity.time = v for an entity of the list
SetTime ==
    /\ pc = "idle"
    /\ cmds > 0
    /\ \E k \in 1..Len(entities) :
         \E v \in {-1, 3999, 4000} :
           /\ entities' = [entities EXCEPT ![k] = TimeSet(entities[k], v)]
           /\ call' = [name |-> "Entity.time", args |-> <<k, v>>, res |-> <<>>]
    /\ err' = "none"
    /\ cmds' = cmds - 1
    /\ op' = "call"
    /\ UNCHANGED thr
    /\ UNCHANGED <<size, maxFoods, foods, nEntities, nObj, simTime, disk, pc,
                   it, before, pre, ticked, skipped, saved, steps>>

\* food.pts = v for a food of the list
SetPts ==
    /\ pc = "idle"
    /\ cmds > 0
    /\ \E k \in 1..Len(foods) :
         \E v \in {0, 65536, 65537} :
           /\ foods' = [foods EXCEPT ![k].pts = PtsSet(v)]
           /\ call' = [name |-> "Food.pts", args |-> <<k, v>>, res |-> <<>>]
    /\ err' = "none"
    /\ cmds' = cmds - 1
    /\ op' = "call"
    /\ UNCHANGED thr
    /\ UNCHANGED <<size, maxFoods, entities, nEntities, nObj, simTime, disk,
                   pc, it, before, pre, ticked, skipped, saved, steps>>

\* Map.size = value: the assignment is made on the class, where it replaces
\* the property; the setter and its validation run on instances only
MapSizeSet(old, value) == value

\* the sizes given to RSim.init
InitSizes == {<<5, 2>>, <<500, 0>>, <<-1, 2>>}

\* RSim.init(numSave, size): Map.size, a new Save (time 0), Food.maxFoods
RSimInit ==
    /\ pc = "idle"
    /\ cmds > 0
    /\ \E sz \in InitSizes :
         /\ size' = MapSizeSet(size, sz)
         /\ maxFoods' = (size'[1] * size'[2]) \div 9
         /\ call' = [name |-> "RSim.init", args |-> sz, res |-> <<>>]
    /\ simTime' = SaveTimeSet(0)
    /\ err' = "none"
    /\ cmds' = cmds - 1
    /\ op' = "call"
    /\ UNCHANGED thr
    /\ UNCHANGED <<foods, entities, nEntities, nObj, disk, pc, it, before, pre,
                   ticked, skipped, saved, steps>>

\* Map.rmdCoord(datas): res is <<>> for None
CallRmdCoord ==
    /\ pc = "idle"
    /\ cmds > 0
    /\ \E datas \in {<<>>, foods, entities, foods \o entities} :
         \E c \in (IF RmdCoord(datas) = {} THEN {<<>>} ELSE RmdCoord(datas)) :
           call' = [name |-> "Map.rmdCoord", args |-> datas, res |-> c]
    /\ err' = "none"
    /\ cmds' = cmds - 1
    /\ op' = "call"
    /\ UNCHANGED thr
    /\ UNCHANGED <<world, pc, it, before, pre, ticked, skipped, saved, steps>>

---------------------------------------------------------------------------
Next ==
    \/ StepBegin
    \/ ForNext
    \/ MoveDec
    \/ MoveEat
    \/ MoveReproduction
    \/ MoveGo
    \/ StepSurvive
    \/ StepEnd

Spec == Init /\ [][Next]_vars

\* the worlds of Init in which every agent is alive: energy at least 1 and
\* elapsed time in [0, 3999]
InitAlive ==
    /\ Init
    /\ \A k \in 1..Len(entities) :
           entities[k].energy >= 1 /\ entities[k].time \in 0..3999

SpecAlive == InitAlive /\ [][Next]_vars

\* the loop of RSim.run calls cls.step() again and again, and a step that
\* has begun goes on to its end
SpecStarve == InitStarve /\ [][Next]_vars /\ WF_vars(Next)

NextConsole ==
    \/ Next
    \/ SpawnEntity
    \/ SpawnFood
    \/ GenerateEntity
    \/ GenerateFood

SpecConsole == InitConsole /\ [][NextConsole]_vars

NextCodec ==
    \/ Next
    \/ Save
    \/ Load

SpecCodec == InitCodec /\ [][NextCodec]_vars

NextApi ==
    \/ Next
    \/ ApiEntityNew
    \/ ApiFoodNew
    \/ SetEnergy
    \/ SetTime
    \/ SetPts

SpecApi == InitApi /\ [][NextApi]_vars

NextMap ==
    \/ Next
    \/ RSimInit
    \/ CallRmdCoord
    \/ GenerateFood
    \/ Save
    \/ Load

SpecMap == InitMap /\ [][NextMap]_vars

NextGenerate ==
    \/ Next
    \/ GenerateFood

SpecGenerate == InitGenerate /\ [][NextGenerate]_vars

NextFiles ==
    \/ Next
    \/ Save
    \/ Load

SpecFiles == InitFiles /\ [][NextFiles]_vars

NextIds ==
    \/ Next
    \/ ApiEntityNew
    \/ Save
    \/ Load

SpecIds == InitIds /\ [][NextIds]_vars

---------------------------------------------------------------------------
(* RSim.run(): the main thread runs the loop of the window, the console   *)
(* thread reads the lines of the terminal.  A step of the model is what   *)
(* one thread does between two points where the other can run.            *)

\* the worlds of a run; every field of them fits the save format
ThreadWorlds ==
    { [size |-> <<5, 2>>, foods |-> <<(<<1, 0, 100>>)>>,
       ents |-> <<(<<0, 0, 50, 0>>), (<<4, 1, 1, 0>>)>>],
      [size |-> Small, foods |-> <<>>, ents |-> <<(<<1, 0, 50, 0>>)>>] }

InitThreads == \E w \in ThreadWorlds : InitWorld(w, MaxThreadSteps, MaxLines)

\* RSim.run: cls._running = True; cls.startCmd()
RunStart ==
    /\ pc = "idle"
    /\ cpc = "off"
    /\ running' = TRUE
    /\ cpc' = "check"
    /\ UNCHANGED <<world, pc, it, err, hist, steps, cmds>>

\* the loop of RSim.run, a frame in which cls.step() is called, and the
\* statements of the step
MainStep ==
    /\ cpc # "off"
    /\ pc = "idle" => running
    /\ Next

\* the loop of RSim.run, a frame with the event pygame.QUIT and no step
QuitEvent ==
    /\ pc = "idle"
    /\ cpc # "off"
    /\ running
    /\ running' = FALSE
    /\ UNCHANGED <<world, pc, it, err, hist, cpc, steps, cmds>>

\* the loop of RSim.run, a frame with the key s: cls.save.save()
KeySave ==
    /\ pc = "idle"
    /\ cpc # "off"
    /\ running
    /\ SaveCall
    /\ UNCHANGED thr

\* RSim.run after the loop: cls.processCmd(""), cls.visual.close(), and the
\* call of cls.stopCmd()
MainExit ==
    /\ pc = "idle"
    /\ cpc # "off"
    /\ ~running
    /\ pc' = "join"
    /\ UNCHANGED <<world, it, err, hist, thr, steps, cmds>>

\* Cmd.stopCmd: cls.input.join() returns when the console thread has ended
MainJoin ==
    /\ pc = "join"
    /\ cpc = "done"
    /\ pc' = "returned"
    /\ UNCHANGED <<world, it, err, hist, thr, steps, cmds>>

\* Cmd._handle_input: with cls.lock: if not cls._running: break; the thread
\* then ends, or calls input("> ") and waits for a line
ConCheck ==
    /\ cpc = "check"
    /\ cpc' = IF running THEN "input" ELSE "done"
    /\ UNCHANGED <<world, pc, it, err, hist, running, steps, cmds>>

\* Cmd._handle_input: a line is entered, input() returns and the test
\* if cls._running finds the flag true
ConRead ==
    /\ cpc = "input"
    /\ running
    /\ cmds > 0
    /\ cpc' = "dispatch"
    /\ UNCHANGED <<world, pc, it, err, hist, running, steps, cmds>>

\* Cmd._handle_input: cls.processCmd(command) makes the call Cmd (an
\* exception of the call is caught and printed); the flag is not read again
ConsoleLine(Cmd) ==
    /\ cpc = "dispatch"
    /\ Cmd
    /\ cpc' = "check"
    /\ UNCHANGED running

\* the lines "save", "spawn entity x y", "spawn entity", "spawn food x y" and
\* "spawn food"
ConSave == ConsoleLine(SaveCall)
ConSpawnEntity == ConsoleLine(SpawnEntityCall)
ConGenerateEntity == ConsoleLine(GenerateEntityCall)
ConSpawnFood == ConsoleLine(SpawnFoodCall)
ConGenerateFood == ConsoleLine(GenerateFoodCall)

\* the line "exit": cls._running = False
ConExit ==
    /\ cpc = "dispatch"
    /\ cmds > 0
    /\ running' = FALSE
    /\ cpc' = "check"
    /\ cmds' = cmds - 1
    /\ op' = "exit"
    /\ call' = [name |-> "exit", args |-> <<>>, res |-> <<>>]
    /\ UNCHANGED <<world, pc, it, err, before, pre, ticked, skipped, saved,
                   steps>>

\* a line entered when cls._running is false: it is read and not processed
ConIgnored ==
    /\ cpc = "input"
    /\ ~running
    /\ cmds > 0
    /\ cpc' = "check"
    /\ cmds' = cmds - 1
    /\ UNCHANGED <<world, pc, it, err, hist, running, steps>>

\* the steps of the main thread and those of the console thread
MainThread == RunStart \/ MainStep \/ QuitEvent \/ KeySave \/ MainExit \/ MainJoin
ConsoleThread ==
    \/ ConCheck
    \/ ConRead
    \/ ConSave
    \/ ConSpawnEntity
    \/ ConGenerateEntity
    \/ ConSpawnFood
    \/ ConGenerateFood
    \/ ConExit
    \/ ConIgnored

NextThreads ==
    \/ MainThread
    \/ ConsoleThread

SpecThreads == InitThreads /\ [][NextThreads]_vars

---------------------------------------------------------------------------
(* Properties *)

\* the fields of the records the properties compare
FoodTuples(fs) == {<<fs[k].pts, fs[k].x, fs[k].y>> : k \in 1..Len(fs)}
EntityTuples(es) ==
    {<<es[k].id, es[k].x, es[k].y, es[k].energy, es[k].time>> : k \in 1..Len(es)}
Sign(d) == IF d > 0 THEN 1 ELSE IF d < 0 THEN -1 ELSE 0
OnMap(x, y) == 0 <= x /\ x < size[1] /\ 0 <= y /\ y < size[2]

\* C1: on a map of fixed size, after any placements, generations and engine
\* ticks, every live food and every live agent has 0 <= x < width and
\* 0 <= y < height
CoordsOnMap ==
    /\ \A k \in 1..Len(foods) : OnMap(foods[k].x, foods[k].y)
    /\ \A k \in 1..Len(entities) : OnMap(entities[k].x, entities[k].y)

\* an agent placed or generated by a console command, or a placement the
\* setters refused, followed by a tick in which an agent moved
CoordsOnMapWitness ==
    /\ op \in {"spawn", "generate"}
    /\ pc = "survive"
    /\ <<entities[it].x, entities[it].y>> # <<before.ent.x, before.ent.y>>

\* C2 as stated: after a successful Save.save(), a following Save.load()
\* ends with the same set of food (pts, x, y) tuples and the same set of
\* agent (id, x, y, energy, elapsed time) tuples as the saved world
RoundTripKeepsIds ==
    (op = "load" /\ pc = "idle" /\ saved.ok) =>
        /\ err = "none"
        /\ FoodTuples(foods) = FoodTuples(saved.foods)
        /\ EntityTuples(entities) = EntityTuples(saved.ents)

\* the indices of the foods of fs on the cell (x, y)
OnCell(fs, x, y) == {k \in 1..Len(fs) : fs[k].x = x /\ fs[k].y = y}

\* the state after the eat step given the energy the agent has when it eats
EatStepFrom(base) ==
    LET b  == before.ent
        at == OnCell(before.foods, b.x, b.y)
    IN  IF at # {}
        THEN LET k == CHOOSE k \in at : \A j \in at : k <= j
             IN  /\ foods = RemoveAt(before.foods, k)
                 /\ entities[it].energy =
                        Min2(9999, base + before.foods[k].pts)
        ELSE /\ foods = before.foods
             /\ entities[it].energy = base

\* C3 as stated: after the eat step of an agent that had energy e before the
\* tick, the first food of its cell is removed and its energy is
\* min(9999, max(0, e - 1) + pts), or no food is removed and its energy is
\* max(0, e - 1)
EatStepOriginal ==
    pc = "reprod" => EatStepFrom(Max2(0, before.ent.energy - 1))

\* C3 amended: the energy the food is added to is max(0, e - 1) unless the
\* elapsed time of the agent was 3999 before the tick, in which case the
\* increment reset the energy and the food is added to 0
EatStep ==
    pc = "reprod" =>
        EatStepFrom(IF before.ent.time = 3999 THEN 0
                    ELSE Max2(0, before.ent.energy - 1))

\* an agent whose elapsed time was 3999 and whose energy was above 1 has
\* eaten the food of its cell
EatStepWitness ==
    /\ pc = "reprod"
    /\ before.ent.time = 3999
    /\ before.ent.energy > 1
    /\ OnCell(before.foods, before.ent.x, before.ent.y) # {}
    /\ Len(foods) = Len(before.foods) - 1

\* C4: a successful reproduction takes exactly 200 from the parent's energy
\* and appends exactly one agent, at the parent's coordinate, with energy 200
\* and elapsed time 0; nothing else in the live collections changes
ReproductionEffect ==
    [][(pc = "reprod" /\ entities' # entities) =>
          LET p == entities[it]
              n == Len(entities)
          IN  /\ Len(entities') = n + 1
              /\ entities'[it] = [p EXCEPT !.energy = p.energy - 200]
              /\ \A j \in 1..n : j # it => entities'[j] = entities[j]
              /\ entities'[n + 1].x = p.x
              /\ entities'[n + 1].y = p.y
              /\ entities'[n + 1].energy = 200
              /\ entities'[n + 1].time = 0
              /\ foods' = foods]_vars

\* a parent that had at least 500 of energy stands before its move step with
\* its child appended
ReproductionEffectWitness ==
    /\ pc = "mv"
    /\ Len(entities) = before.n + 1
    /\ before.ent.energy >= 500
    /\ entities[Len(entities)].x = entities[it].x

\* C5: in one tick of an agent a child is spawned if and only if, after the
\* decrement, the increment and the eat step of that tick, its age is in
\* [18, 60) and its energy is at least 500; at most one child per tick
ReproductionCondition ==
    [][/\ pc = "reprod" =>
            LET p == entities[it]
            IN  /\ (Len(entities') = Len(entities) + 1) <=>
                       (18 <= p.age /\ p.age < 60 /\ p.energy >= 500)
                /\ Len(entities') \in {Len(entities), Len(entities) + 1}
       /\ pc \in {"dec", "eat", "mv"} => Len(entities') = Len(entities)]_vars

\* an agent that had less than 500 of energy before the tick has eaten and
\* spawned a child
ReproductionConditionWitness ==
    /\ pc = "mv"
    /\ Len(entities) = before.n + 1
    /\ before.ent.energy < 500

\* the indices of the foods within the foraging range of the entity e
InRange(e, fs) ==
    {k \in 1..Len(fs) :
        (fs[k].x - e.x) * (fs[k].x - e.x) + (fs[k].y - e.y) * (fs[k].y - e.y)
            <= 100}

\* C6: if some food lies within distance 10 at the move step, the agent
\* steps by the signs of the deltas toward the nearest one, the earliest in
\* list order among equally near ones
MoveTowardNearest ==
    [][(pc = "mv" /\ InRange(entities[it], foods) # {}) =>
          LET e == entities[it]
              near == InRange(e, foods)
              d(k) == Dist2(e, foods[k])
              t == CHOOSE k \in near :
                     \A j \in near : d(k) < d(j) \/ (d(k) = d(j) /\ k <= j)
          IN  /\ entities'[it].x = e.x + Sign(foods[t].x - e.x)
              /\ entities'[it].y = e.y + Sign(foods[t].y - e.y)
              /\ pc' = "survive"]_vars

\* an agent has stepped with two foods of its range equally near
MoveTowardNearestWitness ==
    /\ pc = "survive"
    /\ \E j, k \in InRange(before.ent, foods) :
          j # k /\ Dist2(before.ent, foods[j]) = Dist2(before.ent, foods[k])
    /\ entities[it].x # before.ent.x

\* C7: if no food lies within distance 10 at the move step, the positions
\* the agent can hold after the tick are exactly the cells (x + dx, y + dy),
\* dx and dy in {-1, 0, 1}, that are on the map
RandomMoveSet ==
    (pc = "mv" /\ InRange(entities[it], foods) = {}) =>
        \A cx \in -1..size[1], cy \in -1..size[2] :
            (ENABLED (MoveGo /\ pc' = "survive" /\ entities'[it].x = cx
                      /\ entities'[it].y = cy))
            <=> (/\ cx - entities[it].x \in {-1, 0, 1}
                 /\ cy - entities[it].y \in {-1, 0, 1}
                 /\ OnMap(cx, cy))

\* with no food in range an agent has made the move (0, 0)
RandomMoveSetWitness ==
    /\ pc = "survive"
    /\ InRange(before.ent, foods) = {}
    /\ <<entities[it].x, entities[it].y>> = <<before.ent.x, before.ent.y>>

\* C8: every agent's age is at most 99, Entity.survive() is false exactly
\* when the energy is 0, and the engine tick removes no agent of energy >= 1
NoDeathByAge ==
    /\ [](\A k \in 1..Len(entities) :
             /\ entities[k].age <= 99
             /\ Survive(entities[k]) <=> entities[k].energy # 0)
    /\ [][pc = "survive" =>
             \A k \in 1..Len(entities) :
                 entities[k].obj \notin Objs(entities') =>
                     entities[k].energy = 0]_vars

\* the tick has removed an agent while an agent whose elapsed time went over
\* the cap lives on
NoDeathByAgeWitness ==
    /\ pc = "for"
    /\ ticked \ Objs(entities) # {}
    /\ \E k \in 1..Len(entities) : entities[k].time = -1

\* C9 as stated: when the loop of RSim.step() ends, no ticked agent that
\* fails survive() is in the list, and every agent that had energy 1 and no
\* food on its cell when the engine tick began is gone
DeadAreRemoved ==
    pc = "end" =>
        /\ \A k \in 1..Len(entities) :
              entities[k].obj \in ticked => Survive(entities[k])
        /\ \A k \in 1..Len(pre.ents) :
              (/\ pre.ents[k].energy = 1
               /\ OnCell(pre.foods, pre.ents[k].x, pre.ents[k].y) = {})
              => pre.ents[k].obj \notin Objs(entities)

AfterCall(name) == pc = "idle" /\ op = "call" /\ call.name = name

\* C11: assigning v to an agent's energy stores min(9999, max(0, v)) and
\* changes nothing else, assigning the stored value again changes nothing,
\* and every agent's energy is in [0, 9999] in every reachable state
EnergyClamped ==
    /\ [](\A k \in 1..Len(entities) :
             0 <= entities[k].energy /\ entities[k].energy <= 9999)
    /\ [][(cmds' < cmds /\ call'.name = "Entity.energy") =>
             LET k == call'.args[1]
                 v == call'.args[2]
             IN  /\ err' = "none"
                 /\ entities' = [entities EXCEPT
                        ![k].energy = Min2(9999, Max2(0, v))]
                 /\ v = entities[k].energy => entities' = entities]_vars

\* 10050 has been assigned to the energy of an agent, which holds 9999
EnergyClampedWitness ==
    /\ AfterCall("Entity.energy")
    /\ call.args[2] = 10050
    /\ entities[call.args[1]].energy = 9999

\* C12: assigning an elapsed time outside [0, 4000) to an agent, by the
\* setter, at construction or by the increment of a tick from 3999, raises
\* no error and leaves the agent with energy 0 and age 0
TimeResetsEnergy ==
    [][/\ (cmds' < cmds /\ call'.name = "Entity.time"
             /\ call'.args[2] \notin 0..3999) =>
            LET k == call'.args[1]
            IN  /\ err' = "none"
                /\ entities'[k].energy = 0
                /\ entities'[k].age = 0
       /\ (cmds' < cmds /\ call'.name = "Entity.new"
             /\ OnMap(call'.args[1], call'.args[2])
             /\ call'.args[4] \notin 0..3999) =>
            /\ err' = "none"
            /\ Len(entities') = Len(entities) + 1
            /\ entities'[Len(entities')].energy = 0
            /\ entities'[Len(entities')].age = 0
       /\ (pc = "dec" /\ entities[it].time = 3999) =>
            /\ pc' = "eat"
            /\ entities'[it].energy = 0
            /\ entities'[it].age = 0]_vars

\* the increment of a tick has taken an agent of energy above 1 from the
\* elapsed time 3999 to energy 0
TimeResetsEnergyWitness ==
    /\ pc = "eat"
    /\ before.ent.time = 3999
    /\ before.ent.energy > 1
    /\ entities[it].energy = 0
    /\ entities[it].age = 0

\* C13 as stated: in every reachable state every agent of the list has an
\* elapsed time in [0, 3999] and an age equal to its elapsed time divided
\* by 40
TimeInRange ==
    \A k \in 1..Len(entities) :
        /\ entities[k].time \in 0..3999
        /\ entities[k].age = entities[k].time \div 40

\* C14 as stated: every id given by a construction is in 1..65535, it is the
\* previous id plus 1, and the id given after 65535 is 1
IdsWrapAt65535 ==
    [][(cmds' < cmds /\ call'.name = "Entity.new" /\ err' = "none") =>
          LET id == entities'[Len(entities')].id
          IN  /\ id \in 1..65535
              /\ id = IF nEntities = 65535 THEN 1 ELSE nEntities + 1]_vars

\* C15 as stated: every food has 1 <= pts <= 65535 in every reachable state,
\* and a value outside that range, given to Food.new or assigned to pts, is
\* not rejected and stores 100
PtsInRange ==
    /\ [](\A k \in 1..Len(foods) : 1 <= foods[k].pts /\ foods[k].pts <= 65535)
    /\ [][/\ (cmds' < cmds /\ call'.name = "Food.new"
                /\ OnMap(call'.args[1], call'.args[2])
                /\ call'.args[3] \notin 1..65535) =>
               /\ err' = "none"
               /\ Len(foods') = Len(foods) + 1
               /\ foods'[Len(foods')].pts = 100
          /\ (cmds' < cmds /\ call'.name = "Food.pts"
                /\ call'.args[2] \notin 1..65535) =>
               /\ err' = "none"
               /\ foods'[call'.args[1]].pts = 100]_vars

\* C16: constructing a Food or an Entity with 0 <= x < width and
\* 0 <= y < height succeeds and x, y read back unchanged; with x or y outside
\* those ranges the construction fails with an error, the live lists are
\* unchanged and no agent id is consumed
CoordsRejected ==
    [][/\ (cmds' < cmds /\ call'.name = "Entity.new") =>
            IF OnMap(call'.args[1], call'.args[2])
            THEN /\ err' = "none"
                 /\ Len(entities') = Len(entities) + 1
                 /\ SubSeq(entities', 1, Len(entities)) = entities
                 /\ entities'[Len(entities')].x = call'.args[1]
                 /\ entities'[Len(entities')].y = call'.args[2]
            ELSE /\ err' # "none"
                 /\ entities' = entities
                 /\ nEntities' = nEntities
                 /\ foods' = foods
       /\ (cmds' < cmds /\ call'.name = "Food.new") =>
            IF OnMap(call'.args[1], call'.args[2])
            THEN /\ err' = "none"
                 /\ Len(foods') = Len(foods) + 1
                 /\ SubSeq(foods', 1, Len(foods)) = foods
                 /\ foods'[Len(foods')].x = call'.args[1]
                 /\ foods'[Len(foods')].y = call'.args[2]
            ELSE /\ err' # "none"
                 /\ foods' = foods
                 /\ entities' = entities
                 /\ nEntities' = nEntities]_vars

\* Entity.new has refused a y equal to the height, after an Entity.new that
\* succeeded, and the id counter is the id of the last entity
CoordsRejectedWitness ==
    /\ AfterCall("Entity.new")
    /\ err = "ValueError"
    /\ call.args[2] = size[2]
    /\ entities[Len(entities)].id = nEntities
    /\ entities[Len(entities)].obj = nObj
    /\ nObj > 1

\* a value the Map.size setter accepts: two dimensions, each in [0, 500)
ValidSize(v) == Len(v) = 2 /\ v[1] \in 0..499 /\ v[2] \in 0..499

\* C17 as stated: RSim.init and Save.load validate the size they assign to
\* the map: a value with a dimension outside [0, 500) is rejected and the
\* map size stays what it was
MapSizeValidated ==
    [][/\ (cmds' < cmds /\ call'.name = "RSim.init") =>
            size' = IF ValidSize(call'.args) THEN call'.args ELSE size
       /\ (cmds' < cmds /\ call'.name = "Save.load") =>
            (size' = size \/ ValidSize(size'))]_vars

\* C18: Map.rmdCoord(occupants) returns no coordinate if and only if
\* width * height <= number of occupants, even when a cell is free;
\* otherwise the coordinate is on the map and is the cell of no occupant
RmdCoordResult ==
    AfterCall("Map.rmdCoord") =>
        LET datas == call.args
            c == call.res
        IN  /\ (c = <<>>) <=> (size[1] * size[2] <= Len(datas))
            /\ c # <<>> =>
                 /\ OnMap(c[1], c[2])
                 /\ \A k \in 1..Len(datas) :
                       <<datas[k].x, datas[k].y>> # c

\* Map.rmdCoord has returned no coordinate although a cell of the map holds
\* none of the occupants
RmdCoordResultWitness ==
    /\ AfterCall("Map.rmdCoord")
    /\ call.res = <<>>
    /\ \E x \in 0..(size[1] - 1), y \in 0..(size[2] - 1) :
          \A k \in 1..Len(call.args) :
              <<call.args[k].x, call.args[k].y>> # <<x, y>>

\* C19: Food.generate() leaves the food list unchanged when the count is at
\* least maxFoods or no coordinate is available, and otherwise appends
\* exactly one food of pts 100 on a cell of the map that holds no other
\* food; where generate() is the only source of food, the count never
\* exceeds maxFoods and no two foods share a cell
GenerateBounded ==
    /\ [][(pc = "end" \/ (cmds' < cmds /\ call'.name = "Food.generate")) =>
             LET n == Len(foods)
             IN  IF n >= maxFoods \/ size[1] * size[2] <= n
                 THEN foods' = foods
                 ELSE /\ Len(foods') = n + 1
                      /\ SubSeq(foods', 1, n) = foods
                      /\ foods'[n + 1].pts = 100
                      /\ OnMap(foods'[n + 1].x, foods'[n + 1].y)
                      /\ OnCell(foods, foods'[n + 1].x, foods'[n + 1].y) = {}]_vars
    /\ [](/\ Len(foods) <= maxFoods
          /\ \A j, k \in 1..Len(foods) :
                j # k => <<foods[j].x, foods[j].y>> # <<foods[k].x, foods[k].y>>)

\* after a Food.generate() from the console the list holds maxFoods foods,
\* at least two, all of them generated
GenerateBoundedWitness ==
    /\ pc = "idle"
    /\ op = "generate"
    /\ Len(foods) = maxFoods
    /\ Len(foods) >= 2

\* C20 as stated: in every state after RSim.init, also after a Save.load()
\* that changes the map size, Food.maxFoods is floor(width * height / 9) of
\* the current map
MaxFoodsFollowsMap ==
    maxFoods = (size[1] * size[2]) \div 9

\* whether the sequence s is the sequence t with some elements removed
RECURSIVE SubList(_, _)
SubList(s, t) ==
    IF s = <<>> THEN TRUE
    ELSE IF t = <<>> THEN FALSE
    ELSE IF Head(s) = Head(t) THEN SubList(Tail(s), Tail(t))
    ELSE SubList(s, Tail(t))

\* C21: each RSim.step() adds exactly 1 to the elapsed-time counter and makes
\* one food generation attempt, both after the agents of the tick: while
\* the agents are processed the counter does not move and every food of the
\* list was there when the tick began, and a tick adds at most one food
StepCountsOnce ==
    /\ [][/\ pc = "end" =>
               /\ simTime' = simTime + 1
               /\ \/ foods' = foods
                  \/ Len(foods') = Len(foods) + 1
                       /\ SubSeq(foods', 1, Len(foods)) = foods
               /\ Len(foods') <= Len(pre.foods) + 1
               /\ pc' = "idle"
          /\ pc \in {"idle", "for", "dec", "eat", "reprod", "mv", "survive"} =>
               simTime' = simTime]_vars
    /\ [](pc \in {"for", "dec", "eat", "reprod", "mv", "survive", "end"} =>
             SubList(foods, pre.foods))

\* a tick has ended with the counter advanced and a food in the list
StepCountsOnceWitness ==
    /\ pc = "idle"
    /\ op = "step"
    /\ simTime >= 1
    /\ Len(foods) >= 1
    /\ entities = <<>>

\* a step of Save.save()
IsSave == cmds' = cmds - 1 /\ call'.name = "Save.save"

\* C22: Save.save() copies the existing save file to the backup before it
\* opens the target: after a save that found a file the backup holds what the
\* target held before; a save that finds no file leaves the backup as it
\* was and still writes the target
BackupHoldsPrevious ==
    [][IsSave =>
         /\ file.exists => backup' = file
         /\ ~file.exists => backup' = backup /\ file'.exists]_vars

\* a second save has copied the file of the first to the backup
BackupHoldsPreviousWitness ==
    /\ op = "save"
    /\ backup.exists
    /\ file.exists
    /\ Len(backup.bytes) > 0

\* C23 as stated: a Save.save() that fails with the value-range error leaves
\* the target file with the content it had before the save
FailedSaveKeepsFile ==
    [][(IsSave /\ err' = "ValueError") => file'.bytes = file.bytes]_vars

\* a step of Save.load()
IsLoad == cmds' = cmds - 1 /\ call'.name = "Save.load"

\* the layout of a save file: the length of its header and of a food record
HeaderLen == 2 * NBYTES_TIME + 2 * NBYTES_COORD
FoodLen == NBYTES_PTS + 2 * NBYTES_COORD

\* the number of whole food records the bytes after the header can hold, and
\* the food of the k-th of them
FoodRecords(bs) == IF Len(bs) < HeaderLen THEN 0 ELSE (Len(bs) - HeaderLen) \div FoodLen
FoodRecord(bs, k) ==
    LET o == HeaderLen + (k - 1) * FoodLen
    IN  [pts |-> bs[o + 1] * 256 + bs[o + 2],
         x |-> bs[o + 3] * 256 + bs[o + 4],
         y |-> bs[o + 5] * 256 + bs[o + 6]]

\* C24 as stated: Save.load() clears both lists before it reads a record, so
\* after a load of an existing file, whether it ends or fails, no agent of
\* the list is an agent object that was in it before the load, and every
\* food of the list is a record of the file
LoadClearsBoth ==
    [][(IsLoad /\ file.exists) =>
         /\ \A k \in 1..Len(entities') : \A j \in 1..Len(entities) :
                entities'[k].obj # entities[j].obj
         /\ \A k \in 1..Len(foods') :
                \E j \in 1..FoodRecords(file.bytes) :
                    foods'[k] = FoodRecord(file.bytes, j)]_vars

\* the file is cut inside a record of its food section: the header is whole,
\* the whole records are foods, and what follows them is a part of a record
\* that is not the end mark of the section
CutInFoods(bs) ==
    LET n    == FoodRecords(bs)
        o    == HeaderLen + n * FoodLen
        part == Len(bs) - o
    IN  /\ Len(bs) >= HeaderLen
        /\ part > 0
        /\ \A k \in 1..n : FoodRecord(bs, k).pts # 0
        /\ part >= NBYTES_PTS => bs[o + 1] * 256 + bs[o + 2] # 0

\* C25: Save.load() of a file whose food section is cut inside a record
\* fails with the read error and leaves in the food list exactly the foods
\* of the whole records before the cut, in the order of the file
TruncatedFoodsKept ==
    [][(IsLoad /\ file.exists /\ CutInFoods(file.bytes)) =>
         /\ err' = "ValueError"
         /\ foods' = [k \in 1..FoodRecords(file.bytes) |->
                         FoodRecord(file.bytes, k)]]_vars

\* the load of the file cut in its second food record has failed and left
\* the food of the first
TruncatedFoodsKeptWitness ==
    /\ op = "load"
    /\ err = "ValueError"
    /\ CutInFoods(file.bytes)
    /\ FoodRecords(file.bytes) = 1
    /\ foods = <<[pts |-> 100, x |-> 4, y |-> 1]>>

\* Save.load() reads the file sf to its end without error
Loadable(sf) == sf.exists /\ LoadedFrom(sf).err = "none"

\* C30 as stated: once the save file or the backup holds a record that
\* Save.load() reads without error (a successful save leaves one), every
\* later save attempt, whether it ends or fails with the value-range error,
\* leaves such a record in the save file or in the backup
OneFileLoadable ==
    [][(IsSave /\ (Loadable(file) \/ Loadable(backup))) =>
         (Loadable(file') \/ Loadable(backup'))]_vars

\* a step in which the console thread processes a line it has read
ConsoleStep == cpc = "dispatch" /\ cpc' = "check"

\* C26 as stated: the food list, the agent list and the id counter are
\* changed by the thread of the ticks only; no step of the console thread
\* adds, removes or changes a food or an agent
LiveListsOnlyByTick ==
    [][ConsoleStep => UNCHANGED <<foods, entities, nEntities>>]_vars

\* the positions of the main thread inside RSim.step()
InStep == {"for", "dec", "eat", "reprod", "mv", "survive", "end"}

\* C27 as stated: what a Save.save() writes, from the key s or from the line
\* "save", is the lists as they stood between two ticks; a save made while
\* the main thread is inside RSim.step() finds the lists as they were when
\* the tick began
SavesBetweenTicks ==
    [][(IsSave /\ pc \in InStep) =>
         /\ saved'.ents = pre.ents
         /\ saved'.foods = pre.foods]_vars

\* a step a thread can take without a line being entered
StepWithoutLine ==
    \/ MainStep \/ MainExit \/ MainJoin
    \/ ConCheck
    \/ ConSave \/ ConSpawnEntity \/ ConGenerateEntity \/ ConSpawnFood
    \/ ConGenerateFood \/ ConExit

\* C28 as stated: once the running flag is false the console thread ends and
\* RSim.run() returns with no further line entered; so as long as run() has
\* not returned (and has not been ended by an exception) one of the threads
\* can take a step that is not the reading of a line
StopNeedsNoLine ==
    (cpc # "off" /\ ~running /\ pc \notin {"returned", "crashed"}) =>
        ENABLED StepWithoutLine

\* C29 as stated: the lines "spawn entity x y" and "spawn food x y" with
\* integer coordinates on the map add one element at (x, y) and nothing
\* else: an agent of energy 200 and elapsed time 0, or a food of pts 100
SpawnAddsOne ==
    [][(/\ cmds' = cmds - 1
        /\ call'.name \in {"spawn entity", "spawn food"}
        /\ OnMap(call'.args[1], call'.args[2])) =>
         IF call'.name = "spawn entity"
         THEN /\ foods' = foods
              /\ Len(entities') = Len(entities) + 1
              /\ SubSeq(entities', 1, Len(entities)) = entities
              /\ LET e == entities'[Len(entities')]
                 IN  /\ <<e.x, e.y>> = call'.args
                     /\ e.energy = 200
                     /\ e.time = 0
         ELSE /\ entities' = entities
              /\ foods' = Append(foods, [pts |-> 100, x |-> call'.args[1],
                                         y |-> call'.args[2]])]_vars

\* C31 as stated: an agent whose elapsed time was 3999 when its tick began
\* (the increment takes it out of [0, 3999]) is removed from the agent list
\* by the survival test of that tick, whatever food lies on its cell
ResetToDeath ==
    [][(pc = "survive" /\ before.ent.time = 3999) =>
         \A k \in 1..Len(entities') : entities'[k].obj # before.ent.obj]_vars

\* the agents of the list born in the current engine tick
Newborn(e) == e.obj \notin Objs(pre.ents)

NewbornSkippedWitness ==
    /\ pc = "end"
    /\ \E k \in 1..Len(entities) :
         /\ Newborn(entities[k])
         /\ \E r \in skipped : r.obj = entities[k].obj

\* C33: from a world in which every agent has energy at least 1 and elapsed
\* time in [0, 3999], with ticks only, every agent of the list has energy at
\* least 1 whenever no tick is in progress
AliveBetweenTicks ==
    pc = "idle" => \A k \in 1..Len(entities) : entities[k].energy >= 1

\* a tick has ended in which an agent was removed and another stays
AliveBetweenTicksWitness ==
    /\ pc = "idle"
    /\ op = "step"
    /\ entities # <<>>
    /\ nObj > Len(entities)

\* C34 as stated: the ids of the agents of the list are pairwise distinct in
\* every reachable state, the id counter having wrapped or not
IdsDistinct ==
    \A j, k \in 1..Len(entities) : j # k => entities[j].id # entities[k].id

\* C35 as stated: after a Save.load(), ended or failed at any point of the
\* file, every food and every agent of the lists has its coordinates on the
\* map of the size in force after the call
LoadedOnMap ==
    (pc = "idle" /\ op = "load") =>
        /\ \A k \in 1..Len(foods) : OnMap(foods[k].x, foods[k].y)
        /\ \A k \in 1..Len(entities) : OnMap(entities[k].x, entities[k].y)

\* the fields of an agent that the save file gives back: all but the id
EntityValues(es) ==
    [k \in 1..Len(es) |-> <<es[k].x, es[k].y, es[k].energy, es[k].time>>]

\* C36 as stated: a Save.load() of the file a successful Save.save() wrote
\* ends without error and leaves as many foods and agents as were saved, in
\* the order of the lists saved, each food with the same (pts, x, y) and each
\* agent with the same (x, y, energy, elapsed time)
SavedFileLoads ==
    (pc = "idle" /\ op = "load" /\ saved.ok) =>
        /\ err = "none"
        /\ foods = saved.foods
        /\ EntityValues(entities) = EntityValues(saved.ents)

\* C37 as stated: once the running flag is false the console thread makes no
\* further call of a command: every command it processes is processed while
\* the flag is true and the main thread is in its loop
NoDispatchAfterStop ==
    [][ConsoleStep => (running /\ pc \notin {"join", "returned"})]_vars

\* twice the energy of the agents of a list plus their number
RECURSIVE EnergySum(_, _)
EnergySum(es, k) == IF k = 0 THEN 0 ELSE EnergySum(es, k - 1) + es[k].energy
Measure(es) == 2 * EnergySum(es, Len(es)) + Len(es)

\* C38: with no food, a food capacity of 0 and ticks only, the agent list
\* becomes empty after finitely many ticks: every tick that begins with an
\* agent in the list ends with a smaller measure (a reproduction moves
\* energy from parent to child, an agent that is ticked loses energy or is
\* removed, the first agent is always ticked), no food ever appears, and the
\* list is empty in the end
StarvationEnds ==
    /\ [][(pc = "end" /\ pre.ents # <<>>) =>
             Measure(entities') < Measure(pre.ents)]_vars
    /\ [](foods = <<>> /\ pc # "crashed")
    /\ <>(entities = <<>>)

\* the world of the agent that reproduced has no agent left
StarvationEndsWitness ==
    /\ pc = "idle"
    /\ op = "step"
    /\ entities = <<>>
    /\ size = <<1, 1>>
    /\ nObj = 2

====
